---- MODULE Spec2Model ----
(***************************************************************************)
(* The file service of internal/app/service.go: three HTTP handlers        *)
(* (CreateFile, GetFile, DeleteFile) over an object store (S3) and a       *)
(* metadata store (DynamoDB).  Each request is one goroutine; the points   *)
(* at which requests interleave are the store calls.  The code between two *)
(* store calls of a handler touches no shared state and is part of the     *)
(* step of the store call that precedes it.                                *)
(*                                                                         *)
(* The stores are modelled as strongly consistent maps; a store call that  *)
(* returns an error has had no effect on the store.                        *)
(*                                                                         *)
(* calls, before and atStart are history variables: they record what a     *)
(* request did and saw, and no handler reads them.                         *)
(***************************************************************************)
EXTENDS Integers, Sequences, FiniteSets, TLC

\* ------------------------------------------------------------------ bounds
MaxReqs == 2     \* HTTP requests issued in one behaviour
MaxIds  == 2     \* identifiers uuid.New() can hand out in one behaviour

\* ------------------------------------------------------- program constants
SniffLen                     == 512
StatusOK                     == 200
StatusCreated                == 201
StatusNoContent              == 204
StatusBadRequest             == 400
StatusNotFound               == 404
StatusUnsupportedMediaType   == 415
StatusInternalServerError    == 500
PresignSeconds               == 900

fileStorageBucket == "file-storage-bucket"
InternalHost      == "http://localstack:4566"
ExternalHost      == "http://localhost:4566"

Reqs == 1..MaxReqs

\* ------------------------------------------------------------------ inputs
\* File contents are byte sequences.  Two JPEGs (they start with the JPEG
\* signature FF D8 FF), a text file and an empty file.
JpegA == <<255, 216, 255, 224>>
JpegB == <<255, 216, 255, 225>>
TextT == <<104, 105>>
Empty == <<>>

\* File names are character sequences, so that filepath.Ext is computed.
NameJpg  == <<"a", ".", "j", "p", "g">>
NameJpeg == <<"b", ".", "j", "p", "e", "g">>
NamePng  == <<"c", ".", "p", "n", "g">>

NoFile == [present |-> FALSE, name |-> <<>>, data |-> <<>>]

\* The multipart uploads a client sends: no "file" part at all, the two
\* JPEGs under both accepted extensions, a JPEG named .png, a text file and
\* an empty file renamed .jpg.
Uploads ==
    { NoFile,
      [present |-> TRUE, name |-> NameJpg,  data |-> JpegA],
      [present |-> TRUE, name |-> NameJpeg, data |-> JpegA],
      [present |-> TRUE, name |-> NameJpeg, data |-> JpegB],
      [present |-> TRUE, name |-> NamePng,  data |-> JpegA],
      [present |-> TRUE, name |-> NameJpg,  data |-> TextT],
      [present |-> TRUE, name |-> NameJpg,  data |-> Empty] }

\* time.Now().Format(time.RFC3339): the wall clock in whole seconds, a clock
\* that has ticked n times since the service started.
RFC3339(n) == "2024-01-01T00:00:0" \o ToString(n % 10) \o "Z"

\* uuid.New().String(): identifiers are opaque and interchangeable, so the
\* n-th identifier handed out is named after n.
Uuid(n) == "uuid-" \o ToString(n)

\* An identifier the service never hands out (a client's guess).
UnknownId == "uuid-x"

\* ------------------------------------------------------------ pure helpers
RECURSIVE Join(_)
Join(chars) == IF chars = <<>> THEN "" ELSE Head(chars) \o Join(Tail(chars))

\* filepath.Ext: the suffix beginning at the final dot of the final
\* path element; empty when there is no dot.
RECURSIVE ExtFrom(_, _)
ExtFrom(name, i) ==
    IF i < 1 \/ name[i] = "/" THEN ""
    ELSE IF name[i] = "." THEN Join(SubSeq(name, i, Len(name)))
    ELSE ExtFrom(name, i - 1)

Ext(name) == ExtFrom(name, Len(name))

Min(a, b) == IF a < b THEN a ELSE b

\* buffer := make([]byte, 512); file.Read(buffer): the leading bytes of the
\* file, the rest of the buffer left zero.
SniffBuffer(data) ==
    [i \in 1..SniffLen |-> IF i <= Len(data) THEN data[i] ELSE 0]

\* net/http's binary-data bytes (the sniffing standard's).
IsBinaryByte(b) ==
    \/ b <= 8
    \/ b = 11
    \/ (b >= 14 /\ b <= 26)
    \/ (b >= 28 /\ b <= 31)

\* http.DetectContentType, restricted to the signatures the inputs can
\* meet: the JPEG signature, else text or opaque binary.
DetectContentType(buffer) ==
    IF Len(buffer) >= 3 /\ SubSeq(buffer, 1, 3) = <<255, 216, 255>>
    THEN "image/jpeg"
    ELSE IF \E i \in 1..Len(buffer) : IsBinaryByte(buffer[i])
    THEN "application/octet-stream"
    ELSE "text/plain; charset=utf-8"

\* Variant: validateFile without the content sniffing.
validateFileNoSniff(data, fileHeader) ==
    LET ext == Ext(fileHeader) IN
    IF ext # ".jpeg" /\ ext # ".jpg"
    THEN [ext |-> "", err |-> "only JPEG files are allowed"]
    ELSE [ext |-> ext, err |-> ""]

validateFile(data, fileHeader) ==
    LET ext == Ext(fileHeader) IN
    IF ext # ".jpeg" /\ ext # ".jpg"
    THEN [ext |-> "", err |-> "only JPEG files are allowed"]
    ELSE IF Len(data) = 0
    THEN [ext |-> "", err |-> "failed to read file: EOF"]
    ELSE IF DetectContentType(SniffBuffer(data)) # "image/jpeg"
    THEN [ext |-> "", err |-> "file is not a valid JPEG image"]
    ELSE [ext |-> ext, err |-> ""]

\* Variant: the copy without the Seek, which starts where the sniffing
\* read stopped.
ReadAllNoSeek(data) ==
    SubSeq(data, Min(Len(data), SniffLen) + 1, Len(data))

\* file.Seek(0, io.SeekStart); io.Copy(fileBuffer, file): the whole file.
\* (The copy of an in-memory multipart part cannot fail.)
ReadAll(data) == data

\* sha256.Sum256, abstracted: a deterministic digest of the bytes, two bytes
\* wide instead of thirty-two.  No property below assumes it collision-free.
RECURSIVE Mix(_, _)
Mix(h, data) ==
    IF data = <<>> THEN h
    ELSE Mix((h * 33 + Head(data) + 1) % 65536, Tail(data))

Sum256(data) ==
    LET h == Mix(5381, data) IN << h \div 256, h % 256 >>

HexDigits ==
    << "0", "1", "2", "3", "4", "5", "6", "7",
       "8", "9", "a", "b", "c", "d", "e", "f" >>

\* hex.EncodeToString: two lowercase hex digits per byte.
RECURSIVE EncodeToString(_)
EncodeToString(bs) ==
    IF bs = <<>> THEN ""
    ELSE HexDigits[(Head(bs) \div 16) + 1] \o HexDigits[(Head(bs) % 16) + 1]
         \o EncodeToString(Tail(bs))

calculateHash(data) == EncodeToString(Sum256(data))

replaceLocalstackHostWithLocalhost(url) ==
    IF url.host = InternalHost THEN [url EXCEPT !.host = ExternalHost] ELSE url

NoURL == [host |-> "", bucket |-> "", key |-> "", expires |-> 0]

\* generatePresignedURL: a signed GET URL for the key, computed locally from
\* the client's configuration; perr is the signer failing.
generatePresignedURL(objectKey, perr) ==
    IF perr THEN [url |-> NoURL, err |-> TRUE]
    ELSE [url |-> replaceLocalstackHostWithLocalhost(
                      [host |-> InternalHost, bucket |-> fileStorageBucket,
                       key |-> objectKey, expires |-> PresignSeconds]),
          err |-> FALSE]

\* -------------------------------------------------------------- the stores
NoMetadata ==
    [ID |-> "", Hash |-> "", Extension |-> "", CreatedAt |-> "", UpdatedAt |-> ""]

FileMetadata(id, hash, ext, now) ==
    [ID |-> id, Hash |-> hash, Extension |-> ext, CreatedAt |-> now, UpdatedAt |-> now]

objectKey(id, ext) == id \o ext

\* PutObject: the object store maps a key to bytes.
uploadToS3(store, key, fileBuffer) ==
    [k \in DOMAIN store \cup {key} |-> IF k = key THEN fileBuffer ELSE store[k]]

\* DeleteObject: succeeds whether or not the key exists.
DeleteObject(store, key) ==
    [k \in DOMAIN store \ {key} |-> store[k]]

\* saveMetadataToDB: rejects an empty ID or Hash, else PutItem (fail is the
\* store call failing).
saveMetadataToDB(table, metadata, fail) ==
    IF metadata.ID = "" \/ metadata.Hash = ""
    THEN [table |-> table, err |-> TRUE, called |-> FALSE]
    ELSE IF fail
    THEN [table |-> table, err |-> TRUE, called |-> TRUE]
    ELSE [table |-> [i \in DOMAIN table \cup {metadata.ID} |->
                        IF i = metadata.ID THEN metadata ELSE table[i]],
          err |-> FALSE, called |-> TRUE]

\* Variant: a DeleteItem that removes nothing.
DeleteItemKeepsRecord(table, id) == table

DeleteItem(table, id) ==
    [i \in DOMAIN table \ {id} |-> table[i]]

\* retrieveMetadataFromDB: (nil, err) when GetItem fails, (nil, nil) when
\* there is no item, else the item.
retrieveMetadataFromDB(table, id, fail) ==
    IF fail THEN [isNil |-> TRUE, metadata |-> NoMetadata, err |-> TRUE]
    ELSE IF id \notin DOMAIN table
    THEN [isNil |-> TRUE, metadata |-> NoMetadata, err |-> FALSE]
    ELSE [isNil |-> FALSE, metadata |-> table[id], err |-> FALSE]

\* Variant: an index query that finds nothing.
HashIndexNeverMatches(table, hash) == {}

\* The records the HashIndex query (Limit 1) can return for a hash: any one
\* record with that hash; none when the set is empty.
HashIndexMatches(table, hash) ==
    { table[i] : i \in { j \in DOMAIN table : table[j].Hash = hash } }

\* getFileIDByHash: rejects an empty hash, else the HashIndex query.
getFileIDByHash(table, hash, fail) ==
    IF hash = "" THEN [err |-> TRUE, called |-> FALSE, items |-> {}]
    ELSE IF fail THEN [err |-> TRUE, called |-> TRUE, items |-> {}]
    ELSE [err |-> FALSE, called |-> TRUE, items |-> HashIndexMatches(table, hash)]

\* ------------------------------------------------------------------- state
VARIABLES
    s3,       \* object store: object key -> bytes
    db,       \* metadata store: ID -> FileMetadata
    issued,   \* identifiers uuid.New() has returned
    req,      \* per request: the handler and its input
    pc,       \* per request: the store call its handler is at
    local,    \* per request: the handler's local variables
    resp,     \* per request: the HTTP response written
    calls,    \* per request: the store calls it has issued, with outcomes
    before,   \* per request: the requests that had completed when it began
    atStart   \* per upload: the stores as they were when it began

vars == << s3, db, issued, req, pc, local, resp, calls, before, atStart >>

NoReq   == [kind |-> "", file |-> NoFile, id |-> ""]
NoLocal == [buf |-> <<>>, hash |-> "", key |-> "", metadata |-> NoMetadata]
NoResp  == [status |-> 0, aborted |-> FALSE, metadata |-> NoMetadata, url |-> NoURL]

\* http.Error(w, msg, code)
ErrorResp(code) == [NoResp EXCEPT !.status = code]

\* w.WriteHeader(code); json.NewEncoder(w).Encode(FileResponse{...})
FileResponse(code, metadata, url) ==
    [status |-> code, aborted |-> FALSE, metadata |-> metadata, url |-> url]

\* A handler that panics: net/http recovers, writes no response and drops
\* the connection.
Aborted == [NoResp EXCEPT !.aborted = TRUE]

\* The stores outlive the service.  When it starts they are empty, or hold
\* what an earlier run left: a file stored by an upload that completed
\* (object and record), or the object of an upload whose metadata write
\* failed (object only).
SeedMetadata == FileMetadata(Uuid(0), calculateHash(JpegA), ".jpg", RFC3339(0))
SeedKey      == objectKey(SeedMetadata.ID, SeedMetadata.Extension)

Seeds ==
    { [s3 |-> << >>, db |-> << >>, issued |-> {}],
      [s3 |-> uploadToS3(<< >>, SeedKey, JpegA),
       db |-> saveMetadataToDB(<< >>, SeedMetadata, FALSE).table,
       issued |-> {SeedMetadata.ID}],
      [s3 |-> uploadToS3(<< >>, SeedKey, JpegA),
       db |-> << >>,
       issued |-> {SeedMetadata.ID}] }

Init ==
    /\ \E seed \in Seeds :
        /\ s3 = seed.s3
        /\ db = seed.db
        /\ issued = seed.issued
    /\ req = [r \in Reqs |-> NoReq]
    /\ pc = [r \in Reqs |-> "idle"]
    /\ local = [r \in Reqs |-> NoLocal]
    /\ resp = [r \in Reqs |-> NoResp]
    /\ calls = [r \in Reqs |-> << >>]
    /\ before = [r \in Reqs |-> {}]
    /\ atStart = [r \in Reqs |-> [s3 |-> << >>, db |-> << >>]]

\* Requests are anonymous: request r arrives after request r - 1 has.
Arrives(r) ==
    /\ pc[r] = "idle"
    /\ IF r = 1 THEN TRUE ELSE pc[r - 1] # "idle"
    /\ before' = [before EXCEPT ![r] = { q \in Reqs : pc[q] = "done" }]

Done(r, response) ==
    /\ pc' = [pc EXCEPT ![r] = "done"]
    /\ resp' = [resp EXCEPT ![r] = response]

Logged(r, entries) ==
    calls' = [calls EXCEPT ![r] = @ \o entries]

Presigned(p) == << "Presign", IF p.err THEN "err" ELSE "ok" >>

\* Variant: a generator that repeats itself.
NewUuidRepeats(used) == { Uuid(1) }

\* uuid.New(): an identifier never handed out before (none is left once
\* MaxIds have been).

NewUuid(used) ==
    LET free == { n \in 1..MaxIds : Uuid(n) \notin used } IN
    IF free = {} THEN {} ELSE { Uuid(CHOOSE n \in free : \A m \in free : n <= m) }

\* The identifiers a client can name: those the service has handed out, and
\* one it never will.
RequestIds == issued \cup {UnknownId}

\* time.Now(): the clock ticks with every arriving request.
Clock == Cardinality({ q \in Reqs : pc[q] # "idle" })

\* -------------------------------------------------------------- CreateFile
\* Variant: the metadata saved before the object is uploaded.
CreateFileSaveFirst(p) ==
    CASE p = "query"  -> "save"
      [] p = "save"   -> "upload"
      [] p = "upload" -> "done"

\* The order of CreateFile's store calls after the hash query: upload the
\* object, save the metadata, respond.
CreateFileNextPc(p) ==
    CASE p = "query"  -> "upload"
      [] p = "upload" -> "save"
      [] p = "save"   -> "done"

\* Variant: the uploaded object removed again.
CreateFileRollback(store, key) == DeleteObject(store, key)

\* What CreateFile leaves in the object store when the metadata write has
\* failed: everything (it returns without cleanup).

CreateFileOnSaveError(store, key) == store

\* The end of CreateFile: presign the new key and answer 201.
CreateFileRespond(r, entry, perr) ==
    LET p == generatePresignedURL(local[r].key, perr) IN
    /\ Done(r, IF p.err THEN ErrorResp(StatusInternalServerError)
               ELSE FileResponse(StatusCreated, local[r].metadata, p.url))
    /\ Logged(r, << entry, Presigned(p) >>)

\* After the store call logged as entry has succeeded.
CreateFileAdvance(r, entry, perr) ==
    LET nxt == CreateFileNextPc(pc[r]) IN
    IF nxt = "done" THEN CreateFileRespond(r, entry, perr)
    ELSE pc' = [pc EXCEPT ![r] = nxt] /\ Logged(r, << entry >>) /\ UNCHANGED resp

\* Whether the signer fails, where the step reaches generatePresignedURL.
PresignOutcomes(r) ==
    IF CreateFileNextPc(pc[r]) = "done" THEN BOOLEAN ELSE {FALSE}

\* r.FormFile, validateFile, the copy into fileBuffer, calculateHash.
CreateFileStart(r) ==
    /\ Arrives(r)
    /\ \E f \in Uploads :
        /\ req' = [req EXCEPT ![r] = [kind |-> "create", file |-> f, id |-> ""]]
        /\ IF ~f.present
           THEN Done(r, ErrorResp(StatusBadRequest)) /\ UNCHANGED local
           ELSE LET v == validateFile(f.data, f.name) IN
                IF v.err # ""
                THEN Done(r, ErrorResp(StatusUnsupportedMediaType)) /\ UNCHANGED local
                ELSE LET fileBuffer == ReadAll(f.data) IN
                     /\ local' = [local EXCEPT ![r] =
                            [buf |-> fileBuffer, hash |-> calculateHash(fileBuffer),
                             key |-> "",
                             metadata |-> [NoMetadata EXCEPT !.Extension = v.ext]]]
                     /\ pc' = [pc EXCEPT ![r] = "query"]
                     /\ UNCHANGED resp
    /\ atStart' = [atStart EXCEPT ![r] = [s3 |-> s3, db |-> db]]
    /\ UNCHANGED << s3, db, issued, calls >>

\* getFileIDByHash, then either the dedup answer (200) or the new
\* identifier, key and metadata.
CreateFileQuery(r) ==
    /\ pc[r] = "query"
    /\ \E fail \in BOOLEAN :
        LET q == getFileIDByHash(db, local[r].hash, fail) IN
        IF q.err
        THEN /\ Done(r, ErrorResp(StatusInternalServerError))
             /\ calls' = [calls EXCEPT ![r] =
                    IF q.called THEN Append(@, << "Query", "err" >>) ELSE @]
             /\ UNCHANGED << local, issued >>
        ELSE IF q.items # {}
        THEN \E existingFile \in q.items, perr \in BOOLEAN :
                LET p == generatePresignedURL(
                            existingFile.ID \o existingFile.Extension, perr) IN
                /\ Done(r, IF p.err THEN ErrorResp(StatusInternalServerError)
                           ELSE FileResponse(StatusOK, existingFile, p.url))
                /\ Logged(r, << << "Query", "item" >>, Presigned(p) >>)
                /\ UNCHANGED << local, issued >>
        ELSE \E id \in NewUuid(issued) :
                LET now == RFC3339(Clock) IN
                /\ issued' = issued \cup {id}
                /\ local' = [local EXCEPT ![r] =
                       [buf |-> local[r].buf, hash |-> local[r].hash,
                        key |-> objectKey(id, local[r].metadata.Extension),
                        metadata |-> FileMetadata(id, local[r].hash,
                                         local[r].metadata.Extension, now)]]
                /\ pc' = [pc EXCEPT ![r] = CreateFileNextPc("query")]
                /\ Logged(r, << << "Query", "none" >> >>)
                /\ UNCHANGED resp
    /\ UNCHANGED << s3, db, req, before, atStart >>

\* uploadToS3
CreateFileUpload(r) ==
    /\ pc[r] = "upload"
    /\ \E fail \in BOOLEAN, perr \in PresignOutcomes(r) :
        IF fail
        THEN /\ ~perr
             /\ Done(r, ErrorResp(StatusInternalServerError))
             /\ Logged(r, << << "PutObject", "err" >> >>)
             /\ UNCHANGED s3
        ELSE /\ s3' = uploadToS3(s3, local[r].key, local[r].buf)
             /\ CreateFileAdvance(r, << "PutObject", "ok" >>, perr)
    /\ UNCHANGED << db, issued, req, local, before, atStart >>

\* saveMetadataToDB
CreateFileSave(r) ==
    /\ pc[r] = "save"
    /\ \E fail \in BOOLEAN, perr \in PresignOutcomes(r) :
        LET w == saveMetadataToDB(db, local[r].metadata, fail) IN
        IF w.err
        THEN /\ ~perr
             /\ Done(r, ErrorResp(StatusInternalServerError))
             /\ calls' = [calls EXCEPT ![r] =
                    IF w.called THEN Append(@, << "PutItem", "err" >>) ELSE @]
             /\ s3' = CreateFileOnSaveError(s3, local[r].key)
             /\ UNCHANGED db
        ELSE /\ db' = w.table
             /\ CreateFileAdvance(r, << "PutItem", "ok" >>, perr)
             /\ UNCHANGED s3
    /\ UNCHANGED << issued, req, local, before, atStart >>

\* ----------------------------------------------------------------- GetFile
GetFile(r) ==
    /\ Arrives(r)
    /\ \E id \in RequestIds, fail \in BOOLEAN, perr \in BOOLEAN :
        LET m == retrieveMetadataFromDB(db, id, fail)
            p == generatePresignedURL(
                     objectKey(m.metadata.ID, m.metadata.Extension), perr)
        IN
        /\ req' = [req EXCEPT ![r] = [kind |-> "get", file |-> NoFile, id |-> id]]
        /\ Logged(r, IF m.err THEN << << "GetItem", "err" >> >>
                     ELSE IF m.isNil THEN << << "GetItem", "none" >> >>
                     ELSE << << "GetItem", "item" >>, Presigned(p) >>)
        /\ Done(r, IF m.err THEN ErrorResp(StatusNotFound)
                   ELSE IF m.isNil THEN ErrorResp(StatusNotFound)
                   ELSE IF p.err THEN ErrorResp(StatusInternalServerError)
                   ELSE FileResponse(StatusOK, m.metadata, p.url))
    /\ UNCHANGED << s3, db, issued, local, atStart >>

\* -------------------------------------------------------------- DeleteFile
\* Variant: the record deleted before the object.
DeleteFileItemFirst(p) ==
    CASE p = "lookup"  -> "delItem"
      [] p = "delItem" -> "delObj"
      [] p = "delObj"  -> "done"

\* The order of DeleteFile's store calls after the lookup: delete the
\* object, delete the metadata record, respond.
DeleteFileNextPc(p) ==
    CASE p = "lookup"  -> "delObj"
      [] p = "delObj"  -> "delItem"
      [] p = "delItem" -> "done"

DeleteFileAdvance(r) ==
    LET nxt == DeleteFileNextPc(pc[r]) IN
    IF nxt = "done" THEN Done(r, [NoResp EXCEPT !.status = StatusNoContent])
    ELSE pc' = [pc EXCEPT ![r] = nxt] /\ UNCHANGED resp

\* What DeleteFile does with the result of its lookup: only an error is
\* answered (404); a nil metadata is not checked for and is dereferenced.
DeleteFileLookup(m) ==
    IF m.err THEN "notfound"
    ELSE IF m.isNil THEN "panic"
    ELSE "proceed"

\* retrieveMetadataFromDB
DeleteFileStart(r) ==
    /\ Arrives(r)
    /\ \E id \in RequestIds, fail \in BOOLEAN :
        LET m == retrieveMetadataFromDB(db, id, fail)
            what == DeleteFileLookup(m)
        IN
        /\ req' = [req EXCEPT ![r] = [kind |-> "delete", file |-> NoFile, id |-> id]]
        /\ Logged(r, << << "GetItem",
                  IF m.err THEN "err" ELSE IF m.isNil THEN "none" ELSE "item" >> >>)
        /\ CASE what = "notfound" ->
                    Done(r, ErrorResp(StatusNotFound)) /\ UNCHANGED local
             [] what = "panic" ->
                    Done(r, Aborted) /\ UNCHANGED local
             [] what = "proceed" ->
                    /\ local' = [local EXCEPT ![r] =
                           [NoLocal EXCEPT
                              !.metadata = m.metadata,
                              !.key = objectKey(m.metadata.ID, m.metadata.Extension)]]
                    /\ pc' = [pc EXCEPT ![r] = DeleteFileNextPc("lookup")]
                    /\ UNCHANGED resp
    /\ UNCHANGED << s3, db, issued, atStart >>

\* s.fileStorage.DeleteObject
DeleteFileObject(r) ==
    /\ pc[r] = "delObj"
    /\ \E fail \in BOOLEAN :
        IF fail
        THEN /\ Done(r, ErrorResp(StatusInternalServerError))
             /\ Logged(r, << << "DeleteObject", "err" >> >>)
             /\ UNCHANGED s3
        ELSE /\ s3' = DeleteObject(s3, local[r].key)
             /\ Logged(r, << << "DeleteObject", "ok" >> >>)
             /\ DeleteFileAdvance(r)
    /\ UNCHANGED << db, issued, req, local, before, atStart >>

\* s.db.DeleteItem
DeleteFileItem(r) ==
    /\ pc[r] = "delItem"
    /\ \E fail \in BOOLEAN :
        IF fail
        THEN /\ Done(r, ErrorResp(StatusInternalServerError))
             /\ Logged(r, << << "DeleteItem", "err" >> >>)
             /\ UNCHANGED db
        ELSE /\ db' = DeleteItem(db, req[r].id)
             /\ Logged(r, << << "DeleteItem", "ok" >> >>)
             /\ DeleteFileAdvance(r)
    /\ UNCHANGED << s3, issued, req, local, before, atStart >>

\* ----------------------------------------------------------- specification
Next ==
    \E r \in Reqs :
        \/ CreateFileStart(r)
        \/ CreateFileQuery(r)
        \/ CreateFileUpload(r)
        \/ CreateFileSave(r)
        \/ GetFile(r)
        \/ DeleteFileStart(r)
        \/ DeleteFileObject(r)
        \/ DeleteFileItem(r)

Spec == Init /\ [][Next]_vars

\* ------------------------------------------------------------- vocabulary
IsDone(r)   == pc[r] = "done"
IsCreate(r) == req[r].kind = "create"
IsGet(r)    == req[r].kind = "get"
IsDelete(r) == req[r].kind = "delete"

\* Request r has issued store call op / has had it end with outcome.
Issued(r, op) == \E i \in 1..Len(calls[r]) : calls[r][i][1] = op
HasCall(r, op, outcome) == \E i \in 1..Len(calls[r]) : calls[r][i] = << op, outcome >>
NoCallFailed(r) == \A i \in 1..Len(calls[r]) : calls[r][i][2] # "err"

\* The key under which a metadata record's bytes are stored.
KeyOf(m) == m.ID \o m.Extension

ObjectsHolding(store, data) == { k \in DOMAIN store : store[k] = data }
RecordsWithHash(table, hash) == { i \in DOMAIN table : table[i].Hash = hash }

\* A DeleteFile request for identifier id has begun.
DeleteStarted(id) == \E d \in Reqs : IsDelete(d) /\ req[d].id = id
NoDeleteStarted   == \A d \in Reqs : ~IsDelete(d)

\* Some DeleteFile request's DeleteObject call for the key has succeeded.
ObjectDeleted(key) ==
    \E d \in Reqs : IsDelete(d) /\ local[d].key = key /\ HasCall(d, "DeleteObject", "ok")

\* Uploads r1 then r2 of the same bytes, run to completion one after the
\* other with nothing else in flight and nothing after them, no call failing.
SequentialDuplicate(r1, r2) ==
    /\ r1 # r2
    /\ IsCreate(r1) /\ IsCreate(r2)
    /\ IsDone(r1) /\ IsDone(r2)
    /\ r1 \in before[r2]
    /\ \A o \in Reqs \ {r1, r2} : pc[o] = "idle" \/ o \in before[r1]
    /\ req[r1].file.present /\ req[r2].file.present
    /\ req[r1].file.data = req[r2].file.data
    /\ NoCallFailed(r1) /\ NoCallFailed(r2)
    /\ validateFile(req[r1].file.data, req[r1].file.name).err = ""
    /\ validateFile(req[r2].file.data, req[r2].file.name).err = ""

DuplicateOutcome(r1, r2) ==
    LET data == req[r1].file.data
        hash == calculateHash(data)
    IN
    /\ resp[r1].status = StatusCreated
    /\ resp[r2].status = StatusOK
    /\ resp[r1].metadata.ID = resp[r2].metadata.ID
    /\ resp[r1].metadata.Hash = resp[r2].metadata.Hash
    /\ resp[r1].metadata.Hash = hash
    /\ Cardinality(ObjectsHolding(s3, data)) = 1
    /\ Cardinality(RecordsWithHash(db, hash)) = 1

\* ------------------------------------------------------------------ claims

\* C1, as stated: two sequential uploads of the same valid JPEG, starting
\* from stores with no record of that hash and with no call failing, answer
\* 201 then 200 with the same id and hash, and leave exactly one object and
\* exactly one record for that content.
C1_AsStated ==
    \A r1 \in Reqs, r2 \in Reqs :
        ( /\ SequentialDuplicate(r1, r2)
          /\ RecordsWithHash(atStart[r1].db, calculateHash(req[r1].file.data)) = {} )
        => DuplicateOutcome(r1, r2)

\* C1, amended: the same, when the object store too holds no object with
\* those bytes at the start (no upload of them was orphaned earlier).
C1_SequentialDuplicate ==
    \A r1 \in Reqs, r2 \in Reqs :
        ( /\ SequentialDuplicate(r1, r2)
          /\ RecordsWithHash(atStart[r1].db, calculateHash(req[r1].file.data)) = {}
          /\ ObjectsHolding(atStart[r1].s3, req[r1].file.data) = {} )
        => DuplicateOutcome(r1, r2)

C1_Witness ==
    \E r1 \in Reqs, r2 \in Reqs :
        /\ SequentialDuplicate(r1, r2)
        /\ RecordsWithHash(atStart[r1].db, calculateHash(req[r1].file.data)) = {}
        /\ ObjectsHolding(atStart[r1].s3, req[r1].file.data) = {}
        /\ resp[r2].status = StatusOK
        /\ req[r1].file.name # req[r2].file.name

\* C2: a DeleteFile whose lookup succeeds and finds no item answers 404 and
\* issues no delete call to either store.
C2_DeleteMissingIs404 ==
    \A r \in Reqs :
        (IsDelete(r) /\ IsDone(r) /\ HasCall(r, "GetItem", "none"))
        => /\ resp[r].status = StatusNotFound
           /\ ~Issued(r, "DeleteObject")
           /\ ~Issued(r, "DeleteItem")

NotSniffedJpeg(f) ==
    f.present /\ DetectContentType(SniffBuffer(f.data)) # "image/jpeg"

\* C4: the step that takes in an upload whose sniffed content type is not
\* image/jpeg ends the request with 415, having issued no store call, and
\* leaves both stores as they were.
C4_RejectedUploadWritesNothing ==
    [][ \A r \in Reqs :
          (pc[r] = "idle" /\ req'[r].kind = "create" /\ NotSniffedJpeg(req'[r].file))
          => /\ pc'[r] = "done"
             /\ resp'[r].status = StatusUnsupportedMediaType
             /\ calls'[r] = << >>
             /\ s3' = s3
             /\ db' = db ]_vars

C4_Witness ==
    \E r \in Reqs :
        /\ IsCreate(r) /\ IsDone(r)
        /\ NotSniffedJpeg(req[r].file)
        /\ Len(req[r].file.data) > 0
        /\ Ext(req[r].file.name) = ".jpg"
        /\ resp[r].status = StatusUnsupportedMediaType
        /\ DOMAIN s3 # {}

\* C5: while no DeleteFile for its id has begun, a file CreateFile answered
\* 201 for has its uploaded bytes in the object store under id+extension,
\* and the hash in the response and in the stored record is the digest of
\* those bytes.
C5_HashIntegrity ==
    \A r \in Reqs :
        LET m == resp[r].metadata IN
        ( /\ IsCreate(r) /\ IsDone(r)
          /\ resp[r].status = StatusCreated
          /\ ~DeleteStarted(m.ID) )
        => /\ KeyOf(m) \in DOMAIN s3
           /\ s3[KeyOf(m)] = req[r].file.data
           /\ resp[r].url.key = KeyOf(m)
           /\ m.Hash = calculateHash(req[r].file.data)
           /\ m.Hash = calculateHash(s3[KeyOf(m)])
           /\ m.ID \in DOMAIN db
           /\ db[m.ID] = m

C5_Witness ==
    \E r \in Reqs, o \in Reqs :
        /\ IsCreate(r) /\ IsDone(r)
        /\ resp[r].status = StatusCreated
        /\ ~DeleteStarted(resp[r].metadata.ID)
        /\ IsDelete(o) /\ IsDone(o) /\ r \in before[o]
        /\ resp[o].status = StatusNoContent
        /\ KeyOf(resp[r].metadata) \in DOMAIN s3

\* The step at which CreateFile request r answers 200 (a dedup hit).
DedupHit(r) ==
    /\ pc[r] = "query"
    /\ pc'[r] = "done"
    /\ resp'[r].status = StatusOK

\* C6, as stated: at every dedup hit, whatever ran before, the object of the
\* record returned is in the object store, and the request has written
\* nothing.
C6_AsStated ==
    [][ \A r \in Reqs :
          DedupHit(r)
          => /\ KeyOf(resp'[r].metadata) \in DOMAIN s3'
             /\ ~Issued(r, "PutObject")' /\ ~Issued(r, "PutItem")'
             /\ s3' = s3 /\ db' = db ]_vars

\* C6, amended: at every dedup hit the request has written nothing, and the
\* object of the record returned is in the object store unless a DeleteFile
\* request has deleted it (its DeleteObject call for that key succeeded).
C6_DedupHit ==
    [][ \A r \in Reqs :
          DedupHit(r)
          => /\ ~Issued(r, "PutObject")' /\ ~Issued(r, "PutItem")'
             /\ s3' = s3 /\ db' = db
             /\ ( ~ObjectDeleted(KeyOf(resp'[r].metadata))
                  => KeyOf(resp'[r].metadata) \in DOMAIN s3' ) ]_vars

C6_Witness ==
    \E r \in Reqs, o \in Reqs :
        /\ IsCreate(r) /\ IsDone(r)
        /\ resp[r].status = StatusOK
        /\ IsCreate(o) /\ resp[o].status = StatusCreated
        /\ resp[r].metadata = resp[o].metadata
        /\ KeyOf(resp[r].metadata) \in DOMAIN s3
        /\ calls[r] = << << "Query", "item" >>, << "Presign", "ok" >> >>

\* Two uploads of the same bytes whose hash queries both found no record
\* and which both answered 201.
BothCreated(r1, r2) ==
    /\ r1 # r2
    /\ IsCreate(r1) /\ IsCreate(r2)
    /\ req[r1].file.data = req[r2].file.data
    /\ HasCall(r1, "Query", "none") /\ HasCall(r2, "Query", "none")
    /\ resp[r1].status = StatusCreated /\ resp[r2].status = StatusCreated

\* C7: two uploads of identical bytes that both missed the hash query and
\* both answered 201 have distinct ids and the same hash, and (no delete
\* having begun) the metadata store holds both records and the object store
\* both objects; the witness is the concurrent run in which this happens.
C7_RaceLeavesTwoRecords ==
    \A r1 \in Reqs, r2 \in Reqs :
        BothCreated(r1, r2)
        => LET m1 == resp[r1].metadata
               m2 == resp[r2].metadata
           IN
           /\ m1.ID # m2.ID
           /\ m1.Hash = m2.Hash
           /\ NoDeleteStarted
              => /\ {m1.ID, m2.ID} \subseteq DOMAIN db
                 /\ db[m1.ID] = m1 /\ db[m2.ID] = m2
                 /\ {KeyOf(m1), KeyOf(m2)} \subseteq DOMAIN s3
                 /\ KeyOf(m1) # KeyOf(m2)

C7_Witness ==
    \E r1 \in Reqs, r2 \in Reqs :
        /\ BothCreated(r1, r2)
        /\ r1 \notin before[r2] /\ r2 \notin before[r1]
        /\ atStart[r1].db = << >> /\ atStart[r2].db = << >>
        /\ Cardinality(RecordsWithHash(db, resp[r1].metadata.Hash)) = 2
        /\ Cardinality(ObjectsHolding(s3, req[r1].file.data)) = 2

\* C8: an upload whose object upload succeeded and whose metadata write
\* failed has answered 500, its object stays under id+extension, no record
\* for its id exists and it issued no delete; an upload whose object upload
\* failed has answered 500 and never attempted the metadata write.
C8_NoRollback ==
    \A r \in Reqs :
        IsCreate(r)
        => /\ (HasCall(r, "PutObject", "ok") /\ HasCall(r, "PutItem", "err"))
              => /\ IsDone(r)
                 /\ resp[r].status = StatusInternalServerError
                 /\ local[r].key = KeyOf(local[r].metadata)
                 /\ local[r].key \in DOMAIN s3
                 /\ s3[local[r].key] = req[r].file.data
                 /\ local[r].metadata.ID \notin DOMAIN db
                 /\ ~Issued(r, "DeleteObject")
           /\ HasCall(r, "PutObject", "err")
              => /\ IsDone(r)
                 /\ resp[r].status = StatusInternalServerError
                 /\ ~Issued(r, "PutItem")
                 /\ local[r].metadata.ID \notin DOMAIN db

C8_Witness ==
    \E r \in Reqs, o \in Reqs :
        /\ IsCreate(r) /\ IsDone(r)
        /\ calls[r] = << << "Query", "none" >>, << "PutObject", "ok" >>,
                         << "PutItem", "err" >> >>
        /\ local[r].key \in DOMAIN s3
        /\ o # r /\ IsDone(o) /\ r \in before[o]

\* The steps at which DeleteFile request r has a delete call fail.
ItemDeleteFails(r) ==
    pc[r] = "delItem" /\ pc'[r] = "done" /\ HasCall(r, "DeleteItem", "err")'

ObjectDeleteFails(r) ==
    pc[r] = "delObj" /\ pc'[r] = "done" /\ HasCall(r, "DeleteObject", "err")'

\* C9: DeleteFile deletes the object before the record.  When the metadata
\* delete fails after the object delete succeeded, the answer is 500, the
\* object is gone and the record is left in the metadata store; when the
\* object delete fails, the answer is 500, the metadata delete is not
\* attempted and both stores are left as they were.
C9_DeleteNotTransactional ==
    [][ \A r \in Reqs :
          /\ Issued(r, "DeleteItem")' => HasCall(r, "DeleteObject", "ok")
          /\ ItemDeleteFails(r)
             => /\ resp'[r].status = StatusInternalServerError
                /\ local[r].key \notin DOMAIN s3'
                /\ db' = db
                /\ (\A o \in Reqs \ {r} :
                        ~(req[o].id = req[r].id /\ HasCall(o, "DeleteItem", "ok")))
                   => /\ req[r].id \in DOMAIN db'
                      /\ db'[req[r].id] = local[r].metadata
          /\ ObjectDeleteFails(r)
             => /\ resp'[r].status = StatusInternalServerError
                /\ ~Issued(r, "DeleteItem")'
                /\ s3' = s3
                /\ db' = db
                /\ (\A o \in Reqs \ {r} : ~(IsDelete(o) /\ req[o].id = req[r].id))
                   => /\ req[r].id \in DOMAIN db'
                      /\ local[r].key \in DOMAIN s3' ]_vars

C9_Witness ==
    \E r \in Reqs :
        /\ IsDelete(r) /\ IsDone(r)
        /\ calls[r] = << << "GetItem", "item" >>, << "DeleteObject", "ok" >>,
                         << "DeleteItem", "err" >> >>
        /\ resp[r].status = StatusInternalServerError
        /\ req[r].id \in DOMAIN db
        /\ KeyOf(db[req[r].id]) \notin DOMAIN s3

\* C10: as long as no DeleteFile request has begun, every record of the
\* metadata store has its object in the object store under id+extension,
\* and the digest of that object is the record's hash; the witness is an
\* object without a record, which uploads alone do produce.
C10_RecordHasObject ==
    NoDeleteStarted
    => \A i \in DOMAIN db :
          /\ db[i].ID = i
          /\ KeyOf(db[i]) \in DOMAIN s3
          /\ calculateHash(s3[KeyOf(db[i])]) = db[i].Hash

C10_Witness ==
    /\ NoDeleteStarted
    /\ \E r \in Reqs :
          /\ IsCreate(r) /\ IsDone(r)
          /\ HasCall(r, "PutItem", "err")
          /\ local[r].key \in DOMAIN s3
          /\ \A i \in DOMAIN db : KeyOf(db[i]) # local[r].key
    /\ \E i \in DOMAIN db : i # Uuid(0)

====
